---------------------------- MODULE Spec2Model ----------------------------
(***************************************************************************)
(* A state-machine model of NanoVNASaver/RFTools.py: the DataSet container *)
(* (insert, insert_complex, copy, the items generators, min_freq,          *)
(* max_freq, gen_interpolation and the interpolated reads), used by one    *)
(* caller or by two threads, and Datapoint's derived quantities and the    *)
(* transform functions.                                                    *)
(*                                                                         *)
(* Real numbers are exact rationals <<num, den>> in lowest terms, den > 0. *)
(* A complex number is a record [re, im]; a Datapoint is [freq, re, im].   *)
(* A Python dict is a function whose DOMAIN is its key set.                *)
(***************************************************************************)
EXTENDS Integers, Sequences, FiniteSets, TLC

VARIABLES
    sets,     \* the DataSet objects, in creation order: sets[1] is the original
    dicts,    \* the dict objects; a DataSet's data field refers to one of them
    written,  \* per DataSet and frequency, the samples of the last successful insert
    call,     \* the last call made: [op, this, ...arguments]
    ret,      \* what that call returned or raised
    gen,      \* the generator object the last items*() call returned
    yielded,  \* what next() has drawn from that generator so far
    thr       \* per thread: where it is in the call it is making on sets[1]

vars == <<sets, dicts, written, call, ret, gen, yielded, thr>>

-----------------------------------------------------------------------------
(* Bounds of the model *)

\* how many times gen_interpolation may append to one DataSet's interp list
MaxBuilds == 2

\* how many DataSet objects may exist (the original and its copies)
MaxSets == 2

-----------------------------------------------------------------------------
(* Numbers *)

RECURSIVE Gcd(_, _)
Gcd(a, b) == IF b = 0 THEN a ELSE Gcd(b, a % b)

Abs(n) == IF n < 0 THEN -n ELSE n

\* the rational n/d, d > 0, in lowest terms
Rat(n, d) ==
    LET g == Gcd(Abs(n), d)
    IN  <<n \div g, d \div g>>

R(n) == <<n, 1>>

complex(re, im) == [re |-> re, im |-> im]

Datapoint(freq, re, im) == [freq |-> freq, re |-> re, im |-> im]

\* Datapoint.z
z(dp) == complex(dp.re, dp.im)

-----------------------------------------------------------------------------
(* Inputs *)

\* DataSet.__init__'s default fields
Fields == <<"11", "21">>

NumFields == Len(Fields)

\* the frequencies samples are taken at (Hz, scaled)
Freqs == {2, 4}

\* the frequencies interpolated reads ask for: below, at, between and above the keys
QueryFreqs == {1, 2, 3, 5}

\* field names a caller may pass; "12" is not a field of the DataSet
FieldArgs == {"11", "21", "12"}

\* two sweeps' complex samples, one per field; all eight components differ
Sweep1 == <<complex(R(0), R(1)), complex(R(2), R(3))>>

Sweep2 == <<complex(R(4), R(5)), complex(R(6), R(7))>>

Sweeps == {Sweep1, Sweep2}

\* the well-formed argument of insert for frequency f and samples v
Points(f, v) == [i \in 1..Len(v) |-> Datapoint(f, v[i].re, v[i].im)]

\* arguments of insert: the well-formed ones, and one too short, one too long
\* and one whose datapoints carry different frequencies
InsertArgs ==
    LET p == Points(2, Sweep1)
    IN  {Points(f, v) : f \in Freqs, v \in Sweeps}
        \cup {<<p[1]>>, Append(p, p[1]), [p EXCEPT ![2].freq = 4]}

\* values for insert_complex: the well-formed ones, one too short, one too long
InsertComplexArgs ==
    Sweeps \cup {<<Sweep1[1]>>, Append(Sweep1, Sweep1[1])}

\* the real and imaginary parts of the datapoints given to the transform functions
Parts == {-1, 0, 1}

\* datapoints for the derived quantities; frequency 0 is one of them
Datapoints ==
    {Datapoint(f, R(re), R(im)) : f \in {0, 2}, re \in Parts, im \in Parts}

\* reference impedances
RefImpedances == {R(50), R(0), R(-75)}

\* the samples of the lists given to groupDelay and corr_att_data
Samples ==
    {Datapoint(f, R(p[1]), R(p[2])) :
        f \in {1, 2}, p \in {<<1, 0>>, <<0, 1>>, <<-1, -1>>}}

\* the lists of up to two samples
ShortLists ==
    {<<>>} \cup {<<a>> : a \in Samples} \cup {<<a, b>> : a \in Samples, b \in Samples}

\* the lists of one to three samples
SampleLists ==
    (ShortLists \ {<<>>})
    \cup {<<a, b, c>> : a \in Samples, b \in Samples, c \in Samples}

\* attenuations in dB
Attenuations == {-20, 0, 20, 40}

-----------------------------------------------------------------------------
(* Python helpers *)

EmptyDict == [k \in {} |-> <<>>]

\* d[k] = v on a dict
SetItem(d, k, v) == [x \in DOMAIN d \cup {k} |-> IF x = k THEN v ELSE d[x]]

SetMin(S) == CHOOSE m \in S : \A x \in S : m <= x

SetMax(S) == CHOOSE m \in S : \A x \in S : m >= x

\* a builtin that answers an empty key view with a sentinel instead of raising
min_or_sentinel(S) ==
    IF S = {} THEN [exc |-> "", val |-> <<0>>]
    ELSE [exc |-> "", val |-> <<SetMin(S)>>]

\* the builtins min() and max(): ValueError on an empty argument
min(S) ==
    IF S = {} THEN [exc |-> "ValueError", val |-> <<>>]
    ELSE [exc |-> "", val |-> <<SetMin(S)>>]

max(S) ==
    IF S = {} THEN [exc |-> "ValueError", val |-> <<>>]
    ELSE [exc |-> "", val |-> <<SetMax(S)>>]

\* sorted(keys): the ascending list of a set of integers
RECURSIVE sorted(_)
sorted(S) ==
    IF S = {} THEN <<>>
    ELSE LET m == SetMin(S) IN <<m>> \o sorted(S \ {m})

\* fields.index(field): the 1-based position, 0 when absent (Python raises ValueError)
index(fields, field) ==
    IF \E i \in 1..Len(fields) : fields[i] = field
    THEN CHOOSE i \in 1..Len(fields) :
            fields[i] = field /\ \A j \in 1..(i - 1) : fields[j] # field
    ELSE 0

-----------------------------------------------------------------------------
(* scipy.interpolate.interp1d(x, y, kind="slinear", fill_value=(lo, hi),   *)
(* bounds_error=False) as RFTools.py uses it                               *)

interp1d(x, y, fill_value) == [x |-> x, y |-> y, fill_value |-> fill_value]

\* a + (b - a) * (f - x0) / (x1 - x0) on rationals a, b and integers f, x0, x1
Lerp(a, b, f, x0, x1) ==
    LET w == x1 - x0
        n == a[1] * b[2] * w + (b[1] * a[2] - a[1] * b[2]) * (f - x0)
    IN  Rat(n, a[2] * b[2] * w)

\* float(ip(f)): the interpolator called at f
Eval(ip, f) ==
    LET n == Len(ip.x)
    IN  IF f < ip.x[1] THEN ip.fill_value[1]
        ELSE IF f > ip.x[n] THEN ip.fill_value[2]
        ELSE LET k == CHOOSE j \in 1..(n - 1) : ip.x[j] <= f /\ f <= ip.x[j + 1]
             IN  Lerp(ip.y[k], ip.y[k + 1], f, ip.x[k], ip.x[k + 1])

-----------------------------------------------------------------------------
(* DataSet. A DataSet is [fields, data, interp, inter_valid, lock]; data is *)
(* a reference into dicts. The operators below take the DataSet s and the  *)
(* contents D of the dict s.data refers to.                                *)

\* DataSet.__init__ with its dict at reference ref; lock is 0 when free, else
\* the thread that holds it
DataSet(fields, ref) ==
    [fields |-> fields, data |-> ref, interp |-> <<>>,
     inter_valid |-> FALSE, lock |-> 0]

\* copy() that shares the source's dict instead of copying it
copy_shared(s, ref) == [DataSet(s.fields, ref) EXCEPT !.data = s.data]

\* DataSet.copy: the new DataSet, whose data is the dict copy at reference ref
copy(s, ref) == [DataSet(s.fields, ref) EXCEPT !.inter_valid = FALSE]

\* DataSet.items_complex, consumed to the end with no insert in between
items_complex(D) ==
    LET ks == sorted(DOMAIN D)
    IN  [n \in 1..Len(ks) |-> <<ks[n], D[ks[n]]>>]

\* DataSet.min_freq and max_freq: what the call returns or raises
min_freq(D) == min(DOMAIN D)

max_freq(D) == max(DOMAIN D)

\* one round of gen_interpolation's loop, for field i: the DataSet after it, or
\* the exception it raises (reals[0] of an empty list; interp1d given fewer
\* than two points)
GenField(s, D, i) ==
    LET ic    == items_complex(D)
        freqs == [n \in 1..Len(ic) |-> ic[n][1]]
        reals == [n \in 1..Len(ic) |-> ic[n][2][i].re]
        imags == [n \in 1..Len(ic) |-> ic[n][2][i].im]
    IN  IF Len(ic) = 0 THEN [exc |-> "IndexError", s |-> s]
        ELSE IF Len(ic) < 2 THEN [exc |-> "ValueError", s |-> s]
        ELSE [exc |-> "",
              s |-> [s EXCEPT !.interp = Append(@,
                        <<interp1d(freqs, reals, <<reals[1], reals[Len(reals)]>>),
                          interp1d(freqs, imags, <<imags[1], imags[Len(imags)]>>)>>)]]

RECURSIVE GenLoop(_, _, _)
GenLoop(s, D, i) ==
    IF i > Len(s.fields) THEN [exc |-> "", s |-> [s EXCEPT !.inter_valid = TRUE]]
    ELSE LET r == GenField(s, D, i)
         IN  IF r.exc # "" THEN r ELSE GenLoop(r.s, D, i + 1)

\* DataSet.gen_interpolation
gen_interpolation(s, D) == GenLoop(s, D, 1)

\* a read that rebuilds the cache whether or not it is valid
RefreshAlways(s, D) ==
    LET r == gen_interpolation(s, D) IN [exc |-> r.exc, s |-> r.s, ran |-> TRUE]

\* the "if not self.inter_valid: self.gen_interpolation()" that opens every read
Refresh(s, D) ==
    IF ~s.inter_valid
    THEN LET r == gen_interpolation(s, D) IN [exc |-> r.exc, s |-> r.s, ran |-> TRUE]
    ELSE [exc |-> "", s |-> s, ran |-> FALSE]

\* insert without its second assert: datapoints of different frequencies are stored
insert_any_frequency(s, D, datapoints) ==
    IF Len(datapoints) # Len(s.fields)
    THEN [exc |-> "AssertionError", s |-> s, data |-> D]
    ELSE [exc |-> "",
          s |-> [s EXCEPT !.inter_valid = FALSE],
          data |-> SetItem(D, datapoints[1].freq,
                           [n \in 1..Len(datapoints) |-> z(datapoints[n])])]

\* DataSet.insert: the DataSet and the contents of its dict after the call
insert(s, D, datapoints) ==
    IF Len(datapoints) # Len(s.fields)
    THEN [exc |-> "AssertionError", s |-> s, data |-> D]
    ELSE IF Cardinality({datapoints[n].freq : n \in 1..Len(datapoints)}) # 1
    THEN [exc |-> "AssertionError", s |-> s, data |-> D]
    ELSE LET frequency == datapoints[1].freq
         IN  [exc |-> "",
              s |-> [s EXCEPT !.inter_valid = FALSE],
              data |-> SetItem(D, frequency,
                               [n \in 1..Len(datapoints) |-> z(datapoints[n])])]

\* insert_complex without its assert
insert_complex_unchecked(s, D, frequency, data) ==
    [exc |-> "", s |-> [s EXCEPT !.inter_valid = FALSE],
     data |-> SetItem(D, frequency, data)]

\* DataSet.insert_complex
insert_complex(s, D, frequency, data) ==
    IF Len(data) # Len(s.fields)
    THEN [exc |-> "AssertionError", s |-> s, data |-> D]
    ELSE [exc |-> "", s |-> [s EXCEPT !.inter_valid = FALSE],
          data |-> SetItem(D, frequency, data)]

\* the list comprehensions of freq and freq_complex, over the whole interp list
freq(s, f) ==
    [n \in 1..Len(s.interp) |->
        Datapoint(f, Eval(s.interp[n][1], f), Eval(s.interp[n][2], f))]

freq_complex(s, f) ==
    [n \in 1..Len(s.interp) |->
        complex(Eval(s.interp[n][1], f), Eval(s.interp[n][2], f))]

\* freq_field and freq_field_complex once fields.index(field) = i is known
freq_field(s, f, i) ==
    Datapoint(f, Eval(s.interp[i][1], f), Eval(s.interp[i][2], f))

freq_field_complex(s, f, i) ==
    complex(Eval(s.interp[i][1], f), Eval(s.interp[i][2], f))

-----------------------------------------------------------------------------
(* Generators: items(), items_field(field) and items_complex() return a    *)
(* generator object whose body runs only when next() is called on it.      *)
(* pc is "start" before the first next(), "loop" inside the for loop and   *)
(* "done" once the body has returned or raised. called_on and touched are  *)
(* history: the contents of data when the generator was created, and       *)
(* whether an insert has succeeded on its DataSet since.                   *)

NoGen == [kind |-> "none"]

Generator(kind, d, field, D) ==
    [kind |-> kind, this |-> d, field |-> field, pc |-> "start",
     i |-> 0, keys |-> <<>>, pos |-> 1, exc |-> "",
     called_on |-> D, touched |-> FALSE]

\* what one round of the for loop yields for frequency f
Yield(g, D, f) ==
    CASE g.kind = "items" ->
            [n \in 1..Len(D[f]) |-> Datapoint(f, D[f][n].re, D[f][n].im)]
      [] g.kind = "items_field" -> Datapoint(f, D[f][g.i].re, D[f][g.i].im)
      [] g.kind = "items_complex" -> <<f, D[f]>>

\* sorted() in descending order
sorted_descending(S) ==
    LET up == sorted(S) IN [n \in 1..Len(up) |-> up[Len(up) + 1 - n]]

\* the keys in descending order
KeysDescending(D) == sorted_descending(DOMAIN D)

\* sorted(self.data.keys())
SortedKeys(D) == sorted(DOMAIN D)

\* the generator up to its for loop: fields.index(field) for items_field, then
\* sorted(self.data.keys())
Enter(g, s, D) ==
    LET i == index(s.fields, g.field)
    IN  IF g.pc # "start" THEN g
        ELSE IF g.kind = "items_field" /\ i = 0
        THEN [g EXCEPT !.pc = "done", !.exc = "ValueError"]
        ELSE [g EXCEPT !.pc = "loop", !.i = i, !.keys = SortedKeys(D)]

-----------------------------------------------------------------------------
(* Floats. A float is a rational <<num, den>> in lowest terms with den > 0, *)
(* or one of the infinities <<1, 0>> and <<-1, 0>>.                        *)

math_inf == <<1, 0>>

IsInf(x) == x[2] = 0

IsZero(x) == x[1] = 0 /\ x[2] # 0

FNeg(x) == <<-x[1], x[2]>>

FAbs(x) == <<Abs(x[1]), x[2]>>

\* a + b and a * b on finite floats
FAdd(a, b) == Rat(a[1] * b[2] + b[1] * a[2], a[2] * b[2])

FMul(a, b) == Rat(a[1] * b[1], a[2] * b[2])

\* a / b on floats, a finite: Python raises ZeroDivisionError when b is zero
truediv(a, b) ==
    IF IsZero(b) THEN [exc |-> "ZeroDivisionError", val |-> <<>>]
    ELSE IF IsInf(b) THEN [exc |-> "", val |-> <<R(0)>>]
    ELSE LET n == a[1] * b[2]
             d == a[2] * b[1]
         IN  [exc |-> "", val |-> <<IF d < 0 THEN Rat(-n, -d) ELSE Rat(n, d)>>]

\* a / b on complex numbers: ZeroDivisionError when b is 0 + 0j
complex_truediv(a, b) ==
    LET d == FAdd(FMul(b.re, b.re), FMul(b.im, b.im))
        n == complex(FAdd(FMul(a.re, b.re), FMul(a.im, b.im)),
                     FAdd(FMul(a.im, b.re), FNeg(FMul(a.re, b.im))))
    IN  IF IsZero(b.re) /\ IsZero(b.im)
        THEN [exc |-> "ZeroDivisionError", val |-> <<>>]
        ELSE [exc |-> "", val |-> <<complex(truediv(n.re, d).val[1],
                                            truediv(n.im, d).val[1])>>]

\* what gamma_to_impedance returns is a complex or, from its except branch, a
\* float, whose .real is itself and whose .imag is 0.0
complex_number(c) == [re |-> c.re, im |-> c.im, type |-> "complex"]

real_number(x) == [re |-> x, im |-> R(0), type |-> "float"]

\* math.pi, to six decimal places
math_pi == Rat(355, 113)

\* 10 ** e for an integer e >= 0
RECURSIVE pow10(_)
pow10(e) == IF e = 0 THEN 1 ELSE 10 * pow10(e - 1)

-----------------------------------------------------------------------------
(* Datapoint's derived quantities and the transform functions. Each        *)
(* operator gives what the call returns (val) or raises (exc).             *)

\* the speed of light in m/s, the numerator of Datapoint.wavelength
SpeedOfLight == 299792458

\* Datapoint.wavelength
wavelength(dp) == truediv(R(SpeedOfLight), R(dp.freq))

\* Datapoint.phase, cmath.phase(z), in eighths of a turn (tau / 8), for z on the
\* axes and the diagonals; cmath.phase(0) is 0 and the phase of the negative
\* real axis is pi
phase(dp) ==
    LET re == dp.re[1]
        im == dp.im[1]
    IN  CASE im = 0 /\ re >= 0 -> 0
          [] im = 0 /\ re < 0  -> 4
          [] re = 0 /\ im > 0  -> 2
          [] re = 0 /\ im < 0  -> -2
          [] re > 0 /\ im > 0  -> 1
          [] re < 0 /\ im > 0  -> 3
          [] re > 0 /\ im < 0  -> -1
          [] re < 0 /\ im < 0  -> -3

\* gamma_to_impedance without its try/except
gamma_to_impedance_uncaught(gamma, ref_impedance) ==
    LET q == complex_truediv(complex(FAdd(FNeg(gamma.re), R(-1)), FNeg(gamma.im)),
                             complex(FAdd(gamma.re, R(-1)), gamma.im))
    IN  IF q.exc # "" THEN q
        ELSE [exc |-> "",
              val |-> <<complex_number(complex(FMul(q.val[1].re, ref_impedance),
                                               FMul(q.val[1].im, ref_impedance)))>>]

\* gamma_to_impedance
gamma_to_impedance(gamma, ref_impedance) ==
    LET q == complex_truediv(complex(FAdd(FNeg(gamma.re), R(-1)), FNeg(gamma.im)),
                             complex(FAdd(gamma.re, R(-1)), gamma.im))
    IN  IF q.exc = "ZeroDivisionError"
        THEN [exc |-> "", val |-> <<real_number(math_inf)>>]
        ELSE [exc |-> "",
              val |-> <<complex_number(complex(FMul(q.val[1].re, ref_impedance),
                                               FMul(q.val[1].im, ref_impedance)))>>]

\* impedance_to_capacitance
impedance_to_capacitance(Z, frequency) ==
    IF frequency = 0 THEN [exc |-> "", val |-> <<FNeg(math_inf)>>]
    ELSE IF IsZero(Z.im) THEN [exc |-> "", val |-> <<math_inf>>]
    ELSE LET r == truediv(R(1), FMul(FMul(R(frequency * 2), math_pi), Z.im))
         IN  [exc |-> "", val |-> <<FNeg(r.val[1])>>]

\* impedance_to_inductance
impedance_to_inductance(Z, frequency) ==
    IF frequency = 0 THEN [exc |-> "", val |-> <<R(0)>>]
    ELSE truediv(FMul(Z.im, R(1)), FMul(R(frequency * 2), math_pi))

\* Datapoint.impedance
impedance(dp, ref_impedance) == gamma_to_impedance(z(dp), ref_impedance)

\* Datapoint.qFactor
qFactor(dp, ref_impedance) ==
    LET imp == impedance(dp, ref_impedance)
    IN  IF imp.exc # "" THEN imp
        ELSE IF IsZero(imp.val[1].re) THEN [exc |-> "", val |-> <<R(-1)>>]
        ELSE LET q == truediv(imp.val[1].im, imp.val[1].re)
             IN  IF q.exc # "" THEN q ELSE [exc |-> "", val |-> <<FAbs(q.val[1])>>]

\* Datapoint.capacitiveEquivalent
capacitiveEquivalent(dp, ref_impedance) ==
    LET imp == impedance(dp, ref_impedance)
    IN  IF imp.exc # "" THEN imp ELSE impedance_to_capacitance(imp.val[1], dp.freq)

\* Datapoint.inductiveEquivalent
inductiveEquivalent(dp, ref_impedance) ==
    LET imp == impedance(dp, ref_impedance)
    IN  IF imp.exc # "" THEN imp ELSE impedance_to_inductance(imp.val[1], dp.freq)

\* SITools.clamp_value: value held within rmin..rmax
clamp_value(value, rmin, rmax) ==
    IF value < rmin THEN rmin ELSE IF value > rmax THEN rmax ELSE value

\* -delta_angle / math.tau / delta_freq, delta_angle in eighths of a turn
Slope(delta_angle, delta_freq) == truediv(R(-delta_angle), R(8 * delta_freq))

\* groupDelay with a forward difference: from index, not index - 1
groupDelay_forward(data, idx) ==
    LET idx0 == clamp_value(idx, 0, Len(data) - 1)
        idx1 == clamp_value(idx + 1, 0, Len(data) - 1)
        delta_angle == phase(data[idx1 + 1]) - phase(data[idx0 + 1])
        delta_freq  == data[idx1 + 1].freq - data[idx0 + 1].freq
    IN  IF delta_freq = 0 THEN [exc |-> "", val |-> <<R(0)>>]
        ELSE Slope(delta_angle, delta_freq)

\* groupDelay on a non-empty list; Python's data[k] is data[k + 1] here
groupDelay(data, idx) ==
    LET idx0 == clamp_value(idx - 1, 0, Len(data) - 1)
        idx1 == clamp_value(idx + 1, 0, Len(data) - 1)
        delta_angle == phase(data[idx1 + 1]) - phase(data[idx0 + 1])
        delta_freq  == data[idx1 + 1].freq - data[idx0 + 1].freq
    IN  IF delta_freq = 0 THEN [exc |-> "", val |-> <<R(0)>>]
        ELSE Slope(delta_angle, delta_freq)

\* dp.z * att, as a Datapoint of dp's frequency
Corrected(dp, att) ==
    Datapoint(dp.freq, FMul(dp.re, R(att)), FMul(dp.im, R(att)))

\* corr_att_data that overwrites the entries of its argument
corr_att_data_in_place(data, att) ==
    IF att <= 0 THEN [val |-> data, same |-> TRUE, data |-> data]
    ELSE LET ndata == [n \in 1..Len(data) |-> Corrected(data[n], pow10(att \div 20))]
         IN  [val |-> ndata, same |-> TRUE, data |-> ndata]

\* corr_att_data for att a multiple of 20 dB: the list returned (val), whether
\* it is the argument object itself (same), and the argument after the call
corr_att_data(data, att) ==
    IF att <= 0 THEN [val |-> data, same |-> TRUE, data |-> data]
    ELSE LET ndata == [n \in 1..Len(data) |-> Corrected(data[n], pow10(att \div 20))]
         IN  [val |-> ndata, same |-> FALSE, data |-> data]

-----------------------------------------------------------------------------
(* Initial state: one freshly constructed DataSet, nothing called yet *)

NoCall == [op |-> "none"]

NoRet == [exc |-> "", val |-> <<>>, built |-> FALSE]

\* the threads that share sets[1]
Threads == {1, 2}

\* a thread outside any call and outside the lock. pc is "idle", "held" (inside
\* "with ds.lock:", between two calls) or the line of RFTools.py the thread is
\* about to run; back is where the call in progress returns to, i the loop
\* variable of gen_interpolation; start is history: how many entries interp held
\* when the thread's last read was called
Idle ==
    [pc |-> "idle", back |-> "idle", call |-> NoCall, ret |-> NoRet, i |-> 0,
     start |-> 0]

Init ==
    /\ sets = <<DataSet(Fields, 1)>>
    /\ dicts = <<EmptyDict>>
    /\ written = <<EmptyDict>>
    /\ call = NoCall
    /\ ret = NoRet
    /\ gen = NoGen
    /\ yielded = <<>>
    /\ thr = [t \in Threads |-> Idle]

\* the DataSets a call may be made on
This == 1..Len(sets)

\* the contents of DataSet d's data
Data(d) == dicts[sets[d].data]

\* gen_interpolation may still append to s.interp
CanBuild(s) == Len(s.interp) < MaxBuilds * NumFields

\* an insert on DataSet d has succeeded while a generator over it is alive
Touch(d, ok) ==
    gen' = IF ok /\ gen.kind # "none" /\ gen.this = d
           THEN [gen EXCEPT !.touched = TRUE] ELSE gen

-----------------------------------------------------------------------------
(* Calls, one action per method *)

Insert(d, datapoints) ==
    LET r == insert(sets[d], Data(d), datapoints)
    IN  /\ sets' = [sets EXCEPT ![d] = r.s]
        /\ dicts' = [dicts EXCEPT ![sets[d].data] = r.data]
        /\ written' = IF r.exc # "" THEN written
                      ELSE [written EXCEPT ![d] = SetItem(@, datapoints[1].freq,
                               [n \in 1..Len(datapoints) |-> z(datapoints[n])])]
        /\ call' = [op |-> "insert", this |-> d, datapoints |-> datapoints]
        /\ ret' = [exc |-> r.exc, val |-> <<>>, built |-> FALSE]
        /\ Touch(d, r.exc = "")
        /\ UNCHANGED <<yielded, thr>>

InsertComplex(d, frequency, data) ==
    LET r == insert_complex(sets[d], Data(d), frequency, data)
    IN  /\ sets' = [sets EXCEPT ![d] = r.s]
        /\ dicts' = [dicts EXCEPT ![sets[d].data] = r.data]
        /\ written' = IF r.exc # "" THEN written
                      ELSE [written EXCEPT ![d] = SetItem(@, frequency, data)]
        /\ call' = [op |-> "insert_complex", this |-> d,
                    frequency |-> frequency, data |-> data]
        /\ ret' = [exc |-> r.exc, val |-> <<>>, built |-> FALSE]
        /\ Touch(d, r.exc = "")
        /\ UNCHANGED <<yielded, thr>>

Copy(d) ==
    LET ref == Len(dicts) + 1
    IN  /\ Len(sets) < MaxSets
        /\ dicts' = Append(dicts, Data(d))
        /\ sets' = Append(sets, copy(sets[d], ref))
        /\ written' = Append(written, written[d])
        /\ call' = [op |-> "copy", this |-> d]
        /\ ret' = [exc |-> "", val |-> <<Len(sets) + 1>>, built |-> FALSE]
        /\ UNCHANGED <<gen, yielded, thr>>

GenInterpolation(d) ==
    LET r == gen_interpolation(sets[d], Data(d))
    IN  /\ CanBuild(sets[d])
        /\ sets' = [sets EXCEPT ![d] = r.s]
        /\ call' = [op |-> "gen_interpolation", this |-> d]
        /\ ret' = [exc |-> r.exc, val |-> <<>>, built |-> TRUE]
        /\ UNCHANGED <<dicts, written, gen, yielded, thr>>

\* what the four interpolated reads share: r is the refresh that opens the read,
\* v what its return statement evaluates to when the refresh does not raise
Read(d, c, r, v) ==
    /\ sets[d].inter_valid \/ CanBuild(sets[d])
    /\ sets' = [sets EXCEPT ![d] = r.s]
    /\ call' = c
    /\ ret' = IF r.exc # "" THEN [exc |-> r.exc, val |-> <<>>, built |-> r.ran]
              ELSE [exc |-> v.exc, val |-> v.val, built |-> r.ran]
    /\ UNCHANGED <<dicts, written, gen, yielded, thr>>

Freq(d, f) ==
    LET r == Refresh(sets[d], Data(d))
    IN  Read(d, [op |-> "freq", this |-> d, freq |-> f], r,
             [exc |-> "", val |-> freq(r.s, f)])

FreqComplex(d, f) ==
    LET r == Refresh(sets[d], Data(d))
    IN  Read(d, [op |-> "freq_complex", this |-> d, freq |-> f], r,
             [exc |-> "", val |-> freq_complex(r.s, f)])

FreqField(d, f, field) ==
    LET r == Refresh(sets[d], Data(d))
        i == index(r.s.fields, field)
    IN  Read(d, [op |-> "freq_field", this |-> d, freq |-> f, field |-> field], r,
             IF i = 0 THEN [exc |-> "ValueError", val |-> <<>>]
             ELSE [exc |-> "", val |-> <<freq_field(r.s, f, i)>>])

FreqFieldComplex(d, f, field) ==
    LET r == Refresh(sets[d], Data(d))
        i == index(r.s.fields, field)
    IN  Read(d, [op |-> "freq_field_complex", this |-> d, freq |-> f,
                 field |-> field], r,
             IF i = 0 THEN [exc |-> "ValueError", val |-> <<>>]
             ELSE [exc |-> "", val |-> <<freq_field_complex(r.s, f, i)>>])

\* min_freq() and max_freq(): ret.key holds the frequency returned, an int
MinFreq(d) ==
    LET r == min_freq(Data(d))
    IN  /\ call' = [op |-> "min_freq", this |-> d]
        /\ ret' = [exc |-> r.exc, val |-> <<>>, built |-> FALSE, key |-> r.val]
        /\ UNCHANGED <<sets, dicts, written, gen, yielded, thr>>

MaxFreq(d) ==
    LET r == max_freq(Data(d))
    IN  /\ call' = [op |-> "max_freq", this |-> d]
        /\ ret' = [exc |-> r.exc, val |-> <<>>, built |-> FALSE, key |-> r.val]
        /\ UNCHANGED <<sets, dicts, written, gen, yielded, thr>>

\* items(), items_field(field), items_complex(): only the generator is created
Items(d, kind, field) ==
    /\ gen' = Generator(kind, d, field, Data(d))
    /\ yielded' = <<>>
    /\ call' = [op |-> kind, this |-> d, field |-> field]
    /\ ret' = NoRet
    /\ UNCHANGED <<sets, dicts, written, thr>>

\* next() on the generator: its body runs to the next yield, or to its end
NextItem ==
    LET d == gen.this
        g == Enter(gen, sets[d], Data(d))
    IN  /\ gen.kind # "none"
        /\ gen.pc # "done"
        /\ call' = [op |-> "next", this |-> d]
        /\ IF g.pc = "done"
           THEN /\ gen' = g
                /\ ret' = [exc |-> g.exc, val |-> <<>>, built |-> FALSE]
                /\ UNCHANGED yielded
           ELSE IF g.pos > Len(g.keys)
           THEN /\ gen' = [g EXCEPT !.pc = "done"]
                /\ ret' = [exc |-> "StopIteration", val |-> <<>>, built |-> FALSE]
                /\ UNCHANGED yielded
           ELSE /\ gen' = [g EXCEPT !.pos = @ + 1]
                /\ ret' = [exc |-> "", val |-> <<Yield(g, Data(d), g.keys[g.pos])>>,
                           built |-> FALSE]
                /\ yielded' = Append(yielded, Yield(g, Data(d), g.keys[g.pos]))
        /\ UNCHANGED <<sets, dicts, written, thr>>

-----------------------------------------------------------------------------
(* Calls of Datapoint's methods and of the transform functions: they touch *)
(* no DataSet                                                              *)

Wavelength(dp) ==
    LET r == wavelength(dp)
    IN  /\ call' = [op |-> "wavelength", dp |-> dp]
        /\ ret' = [exc |-> r.exc, val |-> r.val, built |-> FALSE]
        /\ UNCHANGED <<sets, dicts, written, gen, yielded, thr>>

GammaToImpedance(gamma, ref) ==
    LET r == gamma_to_impedance(gamma, ref)
    IN  /\ call' = [op |-> "gamma_to_impedance", gamma |-> gamma,
                    ref_impedance |-> ref]
        /\ ret' = [exc |-> r.exc, val |-> r.val, built |-> FALSE]
        /\ UNCHANGED <<sets, dicts, written, gen, yielded, thr>>

Impedance(dp, ref) ==
    LET r == impedance(dp, ref)
    IN  /\ call' = [op |-> "impedance", dp |-> dp, ref_impedance |-> ref]
        /\ ret' = [exc |-> r.exc, val |-> r.val, built |-> FALSE]
        /\ UNCHANGED <<sets, dicts, written, gen, yielded, thr>>

QFactor(dp, ref) ==
    LET r == qFactor(dp, ref)
    IN  /\ call' = [op |-> "qFactor", dp |-> dp, ref_impedance |-> ref]
        /\ ret' = [exc |-> r.exc, val |-> r.val, built |-> FALSE]
        /\ UNCHANGED <<sets, dicts, written, gen, yielded, thr>>

CapacitiveEquivalent(dp, ref) ==
    LET r == capacitiveEquivalent(dp, ref)
    IN  /\ call' = [op |-> "capacitiveEquivalent", dp |-> dp, ref_impedance |-> ref]
        /\ ret' = [exc |-> r.exc, val |-> r.val, built |-> FALSE]
        /\ UNCHANGED <<sets, dicts, written, gen, yielded, thr>>

InductiveEquivalent(dp, ref) ==
    LET r == inductiveEquivalent(dp, ref)
    IN  /\ call' = [op |-> "inductiveEquivalent", dp |-> dp, ref_impedance |-> ref]
        /\ ret' = [exc |-> r.exc, val |-> r.val, built |-> FALSE]
        /\ UNCHANGED <<sets, dicts, written, gen, yielded, thr>>

GroupDelay(data, idx) ==
    LET r == groupDelay(data, idx)
    IN  /\ call' = [op |-> "groupDelay", data |-> data, index |-> idx]
        /\ ret' = [exc |-> r.exc, val |-> r.val, built |-> FALSE]
        /\ UNCHANGED <<sets, dicts, written, gen, yielded, thr>>

\* corr_att_data: ret also tells whether the list returned is the argument
\* object (same) and what the argument holds after the call (arg)
CorrAttData(data, att) ==
    LET r == corr_att_data(data, att)
    IN  /\ call' = [op |-> "corr_att_data", data |-> data, att |-> att]
        /\ ret' = [exc |-> "", val |-> r.val, built |-> FALSE,
                   same |-> r.same, arg |-> r.data]
        /\ UNCHANGED <<sets, dicts, written, gen, yielded, thr>>

-----------------------------------------------------------------------------
(* Threads. Each thread calls the methods of sets[1] statement by          *)
(* statement, so that another thread may run between two statements; at is *)
(* the pc the call is made from and returns to.                            *)

\* "with ds.lock:" entered: Lock.acquire blocks while another thread holds it
Acquire(t) ==
    /\ thr[t].pc = "idle"
    /\ sets[1].lock = 0
    /\ sets' = [sets EXCEPT ![1].lock = t]
    /\ thr' = [thr EXCEPT ![t].pc = "held"]
    /\ UNCHANGED <<dicts, written, call, ret, gen, yielded>>

\* the with block left: the lock is released, the block's locals are gone
Release(t) ==
    /\ thr[t].pc = "held"
    /\ sets' = [sets EXCEPT ![1].lock = 0]
    /\ thr' = [thr EXCEPT ![t] = Idle]
    /\ UNCHANGED <<dicts, written, call, ret, gen, yielded>>

\* insert, lines 93-96: the asserts, then self.data[frequency] = ...
TInsert(t, at, datapoints) ==
    LET r == insert(sets[1], Data(1), datapoints)
        c == [op |-> "insert", this |-> 1, datapoints |-> datapoints]
    IN  /\ thr[t].pc = at
        /\ dicts' = [dicts EXCEPT ![sets[1].data] = r.data]
        /\ written' = IF r.exc # "" THEN written
                      ELSE [written EXCEPT ![1] = SetItem(@, datapoints[1].freq,
                               [n \in 1..Len(datapoints) |-> z(datapoints[n])])]
        /\ thr' = [thr EXCEPT ![t] =
                     IF r.exc # ""
                     THEN [@ EXCEPT !.call = c,
                                    !.ret = [NoRet EXCEPT !.exc = r.exc]]
                     ELSE [@ EXCEPT !.pc = "insert_97", !.back = at, !.call = c,
                                    !.ret = NoRet]]
        /\ UNCHANGED <<sets, call, ret, gen, yielded>>

\* insert, line 97: self.inter_valid = False
TInsertFlag(t) ==
    /\ thr[t].pc = "insert_97"
    /\ sets' = [sets EXCEPT ![1].inter_valid = FALSE]
    /\ thr' = [thr EXCEPT ![t].pc = thr[t].back]
    /\ UNCHANGED <<dicts, written, call, ret, gen, yielded>>

\* a read, its first line: "if not self.inter_valid:"
TRead(t, at, c) ==
    /\ thr[t].pc = at
    /\ sets[1].inter_valid \/ CanBuild(sets[1])
    /\ thr' = [thr EXCEPT ![t] =
                 [pc |-> IF sets[1].inter_valid THEN "return" ELSE "gen_126",
                  back |-> at, call |-> c, i |-> 1, start |-> Len(sets[1].interp),
                  ret |-> [NoRet EXCEPT !.built = ~sets[1].inter_valid]]]
    /\ UNCHANGED <<sets, dicts, written, call, ret, gen, yielded>>

\* gen_interpolation, lines 126-140: one round of the loop over the fields
TGenField(t) ==
    LET r == GenField(sets[1], Data(1), thr[t].i)
    IN  /\ thr[t].pc = "gen_126"
        /\ thr[t].i <= Len(sets[1].fields)
        /\ sets' = [sets EXCEPT ![1] = r.s]
        /\ thr' = [thr EXCEPT ![t] =
                     IF r.exc # ""
                     THEN [@ EXCEPT !.pc = thr[t].back, !.ret.exc = r.exc]
                     ELSE [@ EXCEPT !.i = @ + 1]]
        /\ UNCHANGED <<dicts, written, call, ret, gen, yielded>>

\* gen_interpolation, line 141: self.inter_valid = True
TGenValid(t) ==
    /\ thr[t].pc = "gen_126"
    /\ thr[t].i > Len(sets[1].fields)
    /\ sets' = [sets EXCEPT ![1].inter_valid = TRUE]
    /\ thr' = [thr EXCEPT ![t].pc = "return"]
    /\ UNCHANGED <<dicts, written, call, ret, gen, yielded>>

\* a read, its return statement
TReturn(t) ==
    LET c == thr[t].call
        s == sets[1]
        i == index(s.fields, c.field)
        v == CASE c.op = "freq" -> [exc |-> "", val |-> freq(s, c.freq)]
               [] c.op = "freq_complex" -> [exc |-> "", val |-> freq_complex(s, c.freq)]
               [] c.op = "freq_field" ->
                    IF i = 0 THEN [exc |-> "ValueError", val |-> <<>>]
                    ELSE [exc |-> "", val |-> <<freq_field(s, c.freq, i)>>]
               [] c.op = "freq_field_complex" ->
                    IF i = 0 THEN [exc |-> "ValueError", val |-> <<>>]
                    ELSE [exc |-> "", val |-> <<freq_field_complex(s, c.freq, i)>>]
    IN  /\ thr[t].pc = "return"
        /\ thr' = [thr EXCEPT ![t].pc = thr[t].back,
                              ![t].ret.exc = v.exc, ![t].ret.val = v.val]
        /\ UNCHANGED <<sets, dicts, written, call, ret, gen, yielded>>

\* the reads a thread may call
ReadCalls ==
    [op : {"freq", "freq_complex"}, this : {1}, freq : QueryFreqs]
    \cup [op : {"freq_field", "freq_field_complex"}, this : {1},
          freq : QueryFreqs, field : FieldArgs]

\* the calls two threads make with no lock held: the well-formed inserts, and
\* freq and freq_field at the frequency between the two sampled ones
RaceInserts == {Points(f, v) : f \in Freqs, v \in Sweeps}

RaceReads ==
    {c \in ReadCalls : c.freq = 3 /\ (c.op = "freq" \/
                                        (c.op = "freq_field" /\ index(Fields, c.field) # 0))}

\* the statements of a call in progress
Steps(t) ==
    \/ TInsertFlag(t)
    \/ TGenField(t)
    \/ TGenValid(t)
    \/ TReturn(t)

-----------------------------------------------------------------------------
(* Specifications *)

Inserts ==
    \/ \E d \in This, p \in InsertArgs : Insert(d, p)
    \/ \E d \in This, f \in Freqs, v \in InsertComplexArgs : InsertComplex(d, f, v)

\* one DataSet: inserts, gen_interpolation and the interpolated reads
Next ==
    \/ Inserts
    \/ \E d \in This : GenInterpolation(d)
    \/ \E d \in This, f \in QueryFreqs : Freq(d, f)
    \/ \E d \in This, f \in QueryFreqs : FreqComplex(d, f)
    \/ \E d \in This, f \in QueryFreqs, fd \in FieldArgs : FreqField(d, f, fd)
    \/ \E d \in This, f \in QueryFreqs, fd \in FieldArgs : FreqFieldComplex(d, f, fd)
    \/ \E d \in This : MinFreq(d)
    \/ \E d \in This : MaxFreq(d)

Spec == Init /\ [][Next]_vars

\* DataSets and their copies: inserts on any of them, copy() of any of them, and
\* the first build of the original's cache
NextCopy ==
    \/ Inserts
    \/ \E d \in This : Copy(d)
    \/ sets[1].interp = <<>> /\ GenInterpolation(1)

SpecCopy == Init /\ [][NextCopy]_vars

\* one DataSet, its generators and the inserts that may come between two next()
NextIter ==
    \/ Inserts
    \/ \E d \in This, k \in {"items", "items_complex"} : Items(d, k, "")
    \/ \E d \in This, fd \in FieldArgs : Items(d, "items_field", fd)
    \/ NextItem

SpecIter == Init /\ [][NextIter]_vars

\* two threads that make every call on sets[1] inside "with ds.lock:"
NextLock ==
    \E t \in Threads :
        \/ Acquire(t)
        \/ Release(t)
        \/ \E p \in InsertArgs : TInsert(t, "held", p)
        \/ \E c \in ReadCalls : TRead(t, "held", c)
        \/ Steps(t)

SpecLock == Init /\ [][NextLock]_vars

\* two threads that call insert and the reads on sets[1] with no lock held: a
\* thread may run between any two statements of the other. A read is called
\* while the cache is valid or has never been built
NextRace ==
    \E t \in Threads :
        \/ \E p \in RaceInserts : TInsert(t, "idle", p)
        \/ \E c \in RaceReads :
              (sets[1].inter_valid \/ sets[1].interp = <<>>) /\ TRead(t, "idle", c)
        \/ Steps(t)

SpecRace == Init /\ [][NextRace]_vars

\* the derived quantities of a Datapoint and the transform functions
NextCalc ==
    \/ \E dp \in Datapoints : Wavelength(dp)
    \/ \E dp \in Datapoints, ref \in RefImpedances : GammaToImpedance(z(dp), ref)
    \/ \E dp \in Datapoints, ref \in RefImpedances : Impedance(dp, ref)
    \/ \E dp \in Datapoints, ref \in RefImpedances : QFactor(dp, ref)
    \/ \E dp \in Datapoints, ref \in RefImpedances : CapacitiveEquivalent(dp, ref)
    \/ \E dp \in Datapoints, ref \in RefImpedances : InductiveEquivalent(dp, ref)
    \/ \E data \in SampleLists, idx \in -1..3 : GroupDelay(data, idx)
    \/ \E data \in ShortLists, att \in Attenuations : CorrAttData(data, att)

SpecCalc == Init /\ [][NextCalc]_vars

-----------------------------------------------------------------------------
(* What the stored samples say, written against the contents D of data alone *)

IsRead(c) == c.op \in {"freq", "freq_complex", "freq_field", "freq_field_complex"}

IsInsert(c) == c.op \in {"insert", "insert_complex"}

\* the piecewise-linear value of field i at f over the samples in D, held flat
\* outside the sampled range
Sampled(D, i, f) ==
    LET K     == DOMAIN D
        below == {k \in K : k <= f}
        above == {k \in K : k >= f}
    IN  IF below = {} THEN D[SetMin(K)][i]
        ELSE IF above = {} THEN D[SetMax(K)][i]
        ELSE LET lo == SetMax(below)
                 hi == SetMin(above)
             IN  IF lo = hi THEN D[lo][i]
                 ELSE complex(Lerp(D[lo][i].re, D[hi][i].re, f, lo, hi),
                              Lerp(D[lo][i].im, D[hi][i].im, f, lo, hi))

\* what the read named by call c should return on a DataSet of these fields
\* whose data holds D
Expected(fields, D, c) ==
    LET dp(i) == Datapoint(c.freq, Sampled(D, i, c.freq).re, Sampled(D, i, c.freq).im)
    IN  CASE c.op = "freq" -> [i \in 1..Len(fields) |-> dp(i)]
          [] c.op = "freq_complex" -> [i \in 1..Len(fields) |-> Sampled(D, i, c.freq)]
          [] c.op = "freq_field" -> <<dp(index(fields, c.field))>>
          [] c.op = "freq_field_complex" ->
                <<Sampled(D, index(fields, c.field), c.freq)>>

\* the interp list gen_interpolation is documented to leave: one pair per field
Rebuilt(fields, D) ==
    LET ks == sorted(DOMAIN D)
        re(i) == [n \in 1..Len(ks) |-> D[ks[n]][i].re]
        im(i) == [n \in 1..Len(ks) |-> D[ks[n]][i].im]
    IN  [i \in 1..Len(fields) |->
            <<interp1d(ks, re(i), <<re(i)[1], re(i)[Len(ks)]>>),
              interp1d(ks, im(i), <<im(i)[1], im(i)[Len(ks)]>>)>>]

-----------------------------------------------------------------------------
(* C1: cache invalidation. In a run insert, read, insert, read on one      *)
(* DataSet, the second read (a read that finds the cache of an earlier     *)
(* build invalidated by an insert that changed the samples) returns the    *)
(* values computed from the data as it stands after the second insert.     *)
C1_SecondReadIsFresh ==
    [][ LET d == call'.this
        IN  (/\ IsRead(call')
             /\ ret'.exc = ""
             /\ ret'.built
             /\ sets[d].interp # <<>>
             /\ sets[d].interp # Rebuilt(sets[d].fields, Data(d)))
            => ret'.val = Expected(sets[d].fields, dicts'[sets'[d].data], call') ]_vars

(* C2: inter_valid is true only if interp holds exactly one (real, imag)   *)
(* interpolator pair per field, in fields order, each built from all and   *)
(* only the samples now in data.                                           *)
C2_ValidMeansCurrent ==
    \A d \in This :
        sets[d].inter_valid => sets[d].interp = Rebuilt(sets[d].fields, Data(d))

(* C3: flat extrapolation. On a DataSet holding at least two frequencies,  *)
(* for every field, a read above max_freq() returns exactly the sample     *)
(* stored at max_freq(), and a read below min_freq() exactly the sample    *)
(* stored at min_freq().                                                   *)
C3_FlatExtrapolation ==
    LET D    == Data(call.this)
        fields == sets[call.this].fields
        lo   == min_freq(D).val[1]
        hi   == max_freq(D).val[1]
        edge == IF call.freq > hi THEN hi ELSE lo
        at(i) == D[edge][i]
    IN  (/\ IsRead(call)
         /\ ret.exc = ""
         /\ Cardinality(DOMAIN D) >= 2
         /\ call.freq > hi \/ call.freq < lo)
        => CASE call.op = "freq" ->
                  \A i \in 1..Len(fields) :
                      ret.val[i] = Datapoint(call.freq, at(i).re, at(i).im)
             [] call.op = "freq_complex" ->
                  \A i \in 1..Len(fields) : ret.val[i] = at(i)
             [] call.op = "freq_field" ->
                  LET i == index(fields, call.field)
                  IN  ret.val = <<Datapoint(call.freq, at(i).re, at(i).im)>>
             [] call.op = "freq_field_complex" ->
                  ret.val = <<at(index(fields, call.field))>>

(* C4: insert fails with an AssertionError whenever the number of          *)
(* datapoints differs from the number of fields or the datapoints carry    *)
(* different frequencies, insert_complex whenever the number of values     *)
(* differs from the number of fields, and a failed insert or               *)
(* insert_complex leaves every DataSet (data, interp, inter_valid) as it   *)
(* was.                                                                    *)
C4_InsertChecksItsArguments ==
    [][ /\ (call'.op = "insert" /\
            (\/ Len(call'.datapoints) # Len(sets[call'.this].fields)
             \/ \E m, n \in 1..Len(call'.datapoints) :
                    call'.datapoints[m].freq # call'.datapoints[n].freq))
           => ret'.exc = "AssertionError"
        /\ (call'.op = "insert_complex" /\
            Len(call'.data) # Len(sets[call'.this].fields))
           => ret'.exc = "AssertionError"
        /\ (IsInsert(call') /\ ret'.exc # "") => (sets' = sets /\ dicts' = dicts) ]_vars

\* an insert has been refused on a DataSet whose cache is built and valid
C4_Witness ==
    /\ call.op = "insert"
    /\ ret.exc = "AssertionError"
    /\ \E m, n \in 1..Len(call.datapoints) :
            call.datapoints[m].freq # call.datapoints[n].freq
    /\ sets[call.this].inter_valid
    /\ sets[call.this].interp # <<>>

(* C6 as stated: every successful insert or insert_complex leaves          *)
(* inter_valid false; a read runs gen_interpolation if and only if         *)
(* inter_valid is false, and a gen_interpolation that succeeds sets it     *)
(* true; in a batch of inserts followed by reads with no insert in         *)
(* between, gen_interpolation runs exactly once: the first read runs it    *)
(* and no later read does.                                                 *)
C6_OneBuildPerBatch ==
    [][ LET d == call'.this
        IN  /\ (IsInsert(call') /\ ret'.exc = "") => ~sets'[d].inter_valid
            /\ IsRead(call') => (ret'.built <=> ~sets[d].inter_valid)
            /\ (call'.op = "gen_interpolation" /\ ret'.exc = "")
               => sets'[d].inter_valid
            /\ (IsInsert(call) /\ ret.exc = "" /\ IsRead(call') /\ call.this = d)
               => ret'.built
            /\ (IsRead(call) /\ IsRead(call') /\ call.this = d /\
                DOMAIN Data(d) # {})
               => ~ret'.built ]_vars

(* C6 as amended: the same transitions; in a batch of inserts followed by  *)
(* reads with no insert in between, the first read runs gen_interpolation; *)
(* when the DataSet holds at least two frequencies that run sets           *)
(* inter_valid and no later read of the batch runs it again, and when it   *)
(* holds fewer than two every read of the batch runs it, fails and leaves  *)
(* inter_valid false.                                                      *)
C6_OneBuildPerBatchOfTwoFrequencies ==
    [][ LET d == call'.this
            n == Cardinality(DOMAIN Data(d))
        IN  /\ (IsInsert(call') /\ ret'.exc = "") => ~sets'[d].inter_valid
            /\ IsRead(call') => (ret'.built <=> ~sets[d].inter_valid)
            /\ (call'.op = "gen_interpolation" /\ ret'.exc = "")
               => sets'[d].inter_valid
            /\ (IsInsert(call) /\ ret.exc = "" /\ IsRead(call') /\ call.this = d)
               => /\ ret'.built
                  /\ sets'[d].inter_valid <=> n >= 2
            /\ (IsRead(call) /\ IsRead(call') /\ call.this = d /\ n >= 2)
               => ~ret'.built /\ sets'[d].inter_valid
            /\ (IsRead(call) /\ IsRead(call') /\ call.this = d /\ n < 2)
               => /\ ret'.built
                  /\ ret'.exc \in {"IndexError", "ValueError"}
                  /\ ~sets'[d].inter_valid ]_vars

\* a read of a batch has found the cache its first read built and not run
\* gen_interpolation again
C6_Witness ==
    /\ IsRead(call)
    /\ ret.exc = ""
    /\ ~ret.built
    /\ sets[call.this].inter_valid
    /\ Len(sets[call.this].interp) = NumFields

(* C5: after any sequence of successful or failed insert, insert_complex  *)
(* and copy calls, every entry of data, in the original and in every copy, *)
(* holds exactly len(fields) complex values.                               *)
C5_EntriesHaveOneValuePerField ==
    \A d \in This : \A f \in DOMAIN Data(d) :
        /\ DOMAIN Data(d)[f] = 1..Len(sets[d].fields)
        /\ \A n \in DOMAIN Data(d)[f] : DOMAIN Data(d)[f][n] = {"re", "im"}

\* an insert_complex of too few values has been refused on a copy, and the
\* original and the copy both hold samples, not the same ones
C5_Witness ==
    /\ Len(sets) = 2
    /\ call.op = "insert_complex" /\ call.this = 2
    /\ Len(call.data) < NumFields
    /\ ret.exc = "AssertionError"
    /\ DOMAIN Data(1) # {} /\ DOMAIN Data(2) # {}
    /\ Data(1) # Data(2)

(* C7: when every thread makes its calls inside "with ds.lock:", a read    *)
(* made under the lock returns, for every field, the value computed from   *)
(* the contents data has while the lock is held: one and the same          *)
(* contents for all fields, holding every insert completed before the lock *)
(* was acquired.                                                           *)
C7_LockedReadsSeeCurrentData ==
    \A t \in Threads :
        LET c      == thr[t].call
            fields == sets[1].fields
            want   == Expected(fields, Data(1), c)
        IN  (/\ thr[t].pc = "held"
             /\ sets[1].lock = t
             /\ IsRead(c)
             /\ thr[t].ret.exc = "")
            => IF c.op \in {"freq", "freq_complex"}
               THEN \A i \in 1..Len(fields) : thr[t].ret.val[i] = want[i]
               ELSE thr[t].ret.val = want

(* C8: copy() returns a DataSet with the same fields, the same             *)
(* frequency-to-values mapping, inter_valid false and no interpolators,    *)
(* and leaves the source (and every other DataSet) as it was; afterwards   *)
(* an insert or insert_complex on one DataSet never changes another        *)
(* DataSet's data or inter_valid.                                          *)
C8_CopyIsIndependent ==
    [][ LET d == call'.this
            n == Len(sets')
        IN  /\ call'.op = "copy"
               => /\ n = Len(sets) + 1
                  /\ ret'.val = <<n>>
                  /\ sets'[n].fields = sets[d].fields
                  /\ dicts'[sets'[n].data] = Data(d)
                  /\ ~sets'[n].inter_valid
                  /\ sets'[n].interp = <<>>
                  /\ \A e \in This :
                        sets'[e] = sets[e] /\ dicts'[sets'[e].data] = Data(e)
            /\ IsInsert(call')
               => \A e \in This \ {d} :
                     /\ dicts'[sets'[e].data] = Data(e)
                     /\ sets'[e].inter_valid = sets[e].inter_valid ]_vars

\* the original was copied with its cache built and valid, and an insert on the
\* copy has since succeeded: the two hold different samples and the original's
\* cache is still valid
C8_Witness ==
    /\ Len(sets) = 2
    /\ IsInsert(call) /\ call.this = 2 /\ ret.exc = ""
    /\ sets[1].inter_valid /\ sets[1].interp # <<>>
    /\ ~sets[2].inter_valid /\ sets[2].interp = <<>>
    /\ Data(1) # Data(2)

\* the frequency an entry yielded by a generator of this kind carries
FreqOf(kind, e) ==
    CASE kind = "items" -> e[1].freq
      [] kind = "items_field" -> e.freq
      [] kind = "items_complex" -> e[1]

\* the entry a generator g over a DataSet of these fields owes for frequency f
\* when the samples are W
Entry(g, fields, W, f) ==
    CASE g.kind = "items" ->
            [n \in 1..Len(fields) |-> Datapoint(f, W[f][n].re, W[f][n].im)]
      [] g.kind = "items_field" ->
            LET i == index(fields, g.field)
            IN  Datapoint(f, W[f][i].re, W[f][i].im)
      [] g.kind = "items_complex" -> <<f, W[f]>>

\* out holds one entry per frequency of W, in strictly ascending frequency
\* order, each the entry owed for its frequency
CompleteAscending(g, fields, W, out) ==
    /\ Len(out) = Cardinality(DOMAIN W)
    /\ \A n \in 1..Len(out) :
          /\ FreqOf(g.kind, out[n]) \in DOMAIN W
          /\ out[n] = Entry(g, fields, W, FreqOf(g.kind, out[n]))
    /\ \A m, n \in 1..Len(out) :
          m < n => FreqOf(g.kind, out[m]) < FreqOf(g.kind, out[n])

(* C9: a complete iteration of items(), items_field(field) or              *)
(* items_complex() with no insert during it yields exactly one entry per   *)
(* stored frequency, in strictly ascending frequency order, each carrying  *)
(* the values of the most recent successful insert at that frequency;      *)
(* next() changes no DataSet; and the first next() of a new call yields    *)
(* the entry of the lowest frequency now stored.                           *)
C9_ItemsAscendingAndComplete ==
    [][ call'.op = "next" =>
        LET d == gen.this
        IN  /\ sets' = sets /\ dicts' = dicts
            /\ DOMAIN Data(d) = DOMAIN written[d]
            /\ (gen'.pc = "done" /\ gen'.exc = "" /\ ~gen'.touched)
               => CompleteAscending(gen', sets[d].fields, written[d], yielded')
            /\ (gen.pc = "start" /\ ret'.exc = "")
               => ret'.val = <<Entry(gen', sets[d].fields, written[d],
                                     min_freq(Data(d)).val[1])>> ]_vars

\* a generator has been consumed to its end with no insert during it, and has
\* yielded two entries
C9_Witness ==
    /\ gen.kind # "none"
    /\ gen.pc = "done" /\ gen.exc = ""
    /\ ~gen.touched
    /\ call.op = "next" /\ ret.exc = "StopIteration"
    /\ Len(yielded) = 2

(* C10: the sequence a call to items(), items_field() or items_complex()   *)
(* produces is not a live view: consumed to its end, it has yielded the    *)
(* entries of the samples stored when the call was made, whatever was      *)
(* inserted in between.                                                    *)
C10_ItemsIsNotALiveView ==
    (gen.kind # "none" /\ gen.pc = "done" /\ gen.exc = "")
    => CompleteAscending(gen, sets[gen.this].fields, gen.called_on, yielded)

-----------------------------------------------------------------------------
(* C11: on a DataSet with no stored samples min_freq(), max_freq() and     *)
(* every interpolated read raise an error to the caller and leave the      *)
(* DataSet as it was, inter_valid false and interp empty; on a DataSet     *)
(* with samples min_freq() and max_freq() return the least and the         *)
(* greatest stored frequency.                                              *)
C11_EmptyDataSetRaises ==
    [][ LET d == call'.this
            K == DOMAIN Data(d)
        IN  /\ (K = {} /\ (IsRead(call') \/ call'.op \in {"min_freq", "max_freq"}))
               => /\ ret'.exc # ""
                  /\ ret'.val = <<>>
                  /\ sets' = sets /\ dicts' = dicts
                  /\ ~sets'[d].inter_valid
                  /\ sets'[d].interp = <<>>
            /\ (K = {} /\ call'.op \in {"min_freq", "max_freq"}) => ret'.key = <<>>
            /\ (K # {} /\ call'.op = "min_freq")
               => /\ ret'.exc = ""
                  /\ Len(ret'.key) = 1
                  /\ ret'.key[1] \in K
                  /\ \A k \in K : ret'.key[1] <= k
            /\ (K # {} /\ call'.op = "max_freq")
               => /\ ret'.exc = ""
                  /\ Len(ret'.key) = 1
                  /\ ret'.key[1] \in K
                  /\ \A k \in K : ret'.key[1] >= k ]_vars

\* min_freq() has raised on a DataSet that holds no samples
C11_Witness ==
    /\ call.op = "min_freq"
    /\ ret.exc = "ValueError"
    /\ Data(call.this) = EmptyDict
    /\ ~sets[call.this].inter_valid

(* C16: in every state reached by inserts and interpolated reads, several  *)
(* insert/read rounds included, freq(f) and freq_complex(f) return exactly *)
(* len(fields) values, the i-th computed from the samples of field i, and  *)
(* freq_field(f, field) and freq_field_complex(f, field) return the value  *)
(* computed from the named field's current samples.                        *)
C16_ReadsReturnOneValuePerField ==
    (IsRead(call) /\ ret.exc = "")
    => /\ call.op \in {"freq", "freq_complex"}
          => Len(ret.val) = Len(sets[call.this].fields)
       /\ ret.val = Expected(sets[call.this].fields, Data(call.this), call)

-----------------------------------------------------------------------------
(* C12: Datapoint.wavelength of a datapoint with freq == 0 returns         *)
(* infinity; it does not raise.                                            *)
C12_WavelengthAtZeroIsInfinity ==
    (call.op = "wavelength" /\ call.dp.freq = 0)
    => (ret.exc = "" /\ ret.val = <<math_inf>>)

(* C13: groupDelay(samples, index) on a non-empty list of n samples with   *)
(* 0 <= index < n takes its difference from the samples at                 *)
(* max(index - 1, 0) and min(index + 1, n - 1), and returns 0 whenever     *)
(* those two samples have the same frequency; otherwise it returns the     *)
(* value v with v * tau * (f1 - f0) = -(phase1 - phase0).                  *)
C13_GroupDelayUsesClampedNeighbours ==
    LET n  == Len(call.data)
        i0 == IF call.index - 1 > 0 THEN call.index - 1 ELSE 0
        i1 == IF call.index + 1 < n - 1 THEN call.index + 1 ELSE n - 1
        a  == call.data[i0 + 1]
        b  == call.data[i1 + 1]
    IN  (call.op = "groupDelay" /\ 0 <= call.index /\ call.index < n)
        => /\ ret.exc = ""
           /\ Len(ret.val) = 1
           /\ a.freq = b.freq => ret.val[1] = R(0)
           /\ ret.val[1][2] > 0
           /\ a.freq # b.freq
              => ret.val[1][1] * 8 * (b.freq - a.freq)
                   = -(phase(b) - phase(a)) * ret.val[1][2]

\* groupDelay at index 0 of three samples has returned a delay that is not the
\* one the first and the third sample would give
C13_Witness ==
    /\ call.op = "groupDelay"
    /\ Len(call.data) = 3
    /\ call.index = 0
    /\ ret.exc = ""
    /\ ret.val # <<R(0)>>
    /\ call.data[3].freq = call.data[1].freq

(* C14: corr_att_data(data, att) with att <= 0 returns the input sequence  *)
(* itself, unchanged; with att > 0 it returns a new sequence of the same   *)
(* length whose i-th element has the frequency of data[i]; in both cases   *)
(* the input sequence and its datapoints are as they were.                 *)
C14_CorrAttDataLeavesItsInput ==
    call.op = "corr_att_data"
    => /\ ret.exc = ""
       /\ ret.arg = call.data
       /\ call.att <= 0 => (ret.same /\ ret.val = call.data)
       /\ call.att > 0
          => /\ ~ret.same
             /\ Len(ret.val) = Len(call.data)
             /\ \A i \in 1..Len(call.data) : ret.val[i].freq = call.data[i].freq

\* two samples have been corrected by 20 dB: the list returned differs from the
\* argument
C14_Witness ==
    /\ call.op = "corr_att_data"
    /\ call.att = 20
    /\ Len(call.data) = 2
    /\ ret.val # call.data
    /\ ret.arg = call.data

(* C15: gamma_to_impedance(gamma, Z0) never fails and returns infinity     *)
(* when gamma == 1 exactly, whatever Z0; so impedance, qFactor,            *)
(* capacitiveEquivalent and inductiveEquivalent of a datapoint with        *)
(* re == 1, im == 0 and freq > 0 return a value: they do not raise.        *)
C15_OpenCircuitIsInfinite ==
    /\ call.op = "gamma_to_impedance"
       => /\ ret.exc = ""
          /\ Len(ret.val) = 1
          /\ call.gamma = complex(R(1), R(0)) => ret.val = <<real_number(math_inf)>>
    /\ (/\ call.op \in {"impedance", "qFactor", "capacitiveEquivalent",
                        "inductiveEquivalent"}
        /\ call.dp.re = R(1) /\ call.dp.im = R(0) /\ call.dp.freq > 0)
       => /\ ret.exc = ""
          /\ Len(ret.val) = 1
          /\ call.op = "impedance" => ret.val = <<real_number(math_inf)>>

\* qFactor has returned for the datapoint 1 + 0j at a frequency above 0
C15_Witness ==
    /\ call.op = "qFactor"
    /\ call.dp = Datapoint(2, R(1), R(0))
    /\ call.ref_impedance = R(0)
    /\ ret.exc = ""
    /\ ret.val = <<R(0)>>

-----------------------------------------------------------------------------
(* C17: an interpolated read by one thread and an insert by the other, run *)
(* with no lock held, cannot lose the invalidation: once both calls have   *)
(* returned, inter_valid is true only if the interpolators the read built  *)
(* (the last len(fields) entries of interp) come from data that held the   *)
(* inserted sample, that is from the data as it now stands.                *)
C17_InvalidationIsNotLost ==
    \A t \in Threads : \A u \in Threads \ {t} :
        LET s == sets[1]
            n == Len(s.interp)
            k == Len(s.fields)
        IN  (/\ thr[t].pc = "idle" /\ thr[u].pc = "idle"
             /\ IsRead(thr[t].call) /\ thr[t].ret.built /\ thr[t].ret.exc = ""
             /\ thr[u].call.op = "insert" /\ thr[u].ret.exc = ""
             /\ s.inter_valid)
            => /\ n >= k
               /\ [i \in 1..k |-> s.interp[n - k + i]] = Rebuilt(s.fields, Data(1))

(* C18: two threads that call interpolated reads at the same time, with no *)
(* lock held, on a DataSet whose cache has never been built each receive   *)
(* exactly one value per field, the value for field i computed from field  *)
(* i's samples.                                                            *)
C18_ConcurrentReadsReturnOneValuePerField ==
    \A t \in Threads : \A u \in Threads \ {t} :
        (/\ thr[t].pc = "idle"
         /\ IsRead(thr[t].call) /\ thr[t].ret.built /\ thr[t].ret.exc = ""
         /\ thr[t].start = 0
         /\ IsRead(thr[u].call) /\ thr[u].ret.built /\ thr[u].ret.exc = ""
         /\ thr[u].start = 0)
        => thr[t].ret.val = Expected(sets[1].fields, Data(1), thr[t].call)

=============================================================================
